---- MODULE Spec2Model ----
(***************************************************************************)
(* A model of rspirv's memory-representation builder                       *)
(* (src/rspirv/mr/builder.rs): identifier allocation, the function /       *)
(* basic-block nesting state held in two Option slots, the terminator      *)
(* path through end_basic_block, and the module-level emitters.            *)
(*                                                                         *)
(* Option<T> is modelled as a sequence of length at most one:              *)
(* None is << >> and Some(x) is << x >>.                                   *)
(***************************************************************************)
EXTENDS Integers, Sequences, FiniteSets

VARIABLES module, next_id, function, basic_block, result

vars == <<module, next_id, function, basic_block, result>>

\* The fields of struct Builder, without the outcome of the last call.
builder == <<module, next_id, function, basic_block>>

-----------------------------------------------------------------------------
\* Bounds of the exploration.

\* Largest number of instructions the caller has the builder create by the
\* calls that open or append (begin_function, begin_basic_block and the
\* module-level emitters other than memory_model, which replaces).
MaxInsts == 4

-----------------------------------------------------------------------------
\* Inputs the callers choose from.

ReturnTypes == {1}
FunctionControls == {"NONE"}
FunctionTypes == {2}
Capabilities == {"Shader"}
Extensions == {"ext"}
ExtInstSets == {"GLSL.std.450"}
AddressingModels == {"Logical"}
MemoryModels == {"Simple", "GLSL450"}
ExecutionModels == {"Vertex"}
ExecutionModes == {"LocalSize"}
Decorations == {"RelaxedPrecision"}
Names == {"main"}
Words == {1}
IdLists == {<<1, 2>>}
ParamLists == {<<3>>}
OperandLists == {<< >>}
MemberLists == {<< <<1, 0>> >>}

\* Structural descriptions of types: 32-bit unsigned and 32-bit signed integer.
TypeDescs ==
    {[op |-> "TypeInt", operands |-> <<[kind |-> "LiteralInt32", val |-> 32],
                                       [kind |-> "LiteralInt32", val |-> s]>>]
        : s \in {0, 1}}

\* The terminator kinds without operands among those of build_terminator.rs.
TerminatorOps == {"Return", "Unreachable"}

-----------------------------------------------------------------------------
\* Option<T>.

None == << >>

Some(x) == <<x>>

is_some(o) == o # None

is_none(o) == o = None

unwrap(o) == o[1]

-----------------------------------------------------------------------------
\* The data model of mr (constructors called by the builder).

Operand(kind, val) == [kind |-> kind, val |-> val]

Instruction(op, result_type, result_id, operands) ==
    [op |-> op, result_type |-> result_type, result_id |-> result_id,
     operands |-> operands]

Function_new == [def |-> None, end |-> None, basic_blocks |-> << >>]

BasicBlock_new == [label |-> None, instructions |-> << >>]

Module_new ==
    [capabilities |-> << >>, extensions |-> << >>, ext_inst_imports |-> << >>,
     memory_model |-> None, entry_points |-> << >>, execution_modes |-> << >>,
     annotations |-> << >>, types_global_values |-> << >>,
     functions |-> << >>]

\* for v in list { operands.push(IdRef(*v)) }
IdRefs(list) == [i \in 1..Len(list) |-> Operand("IdRef", list[i])]

\* for v in params { operands.push(LiteralInt32(*v)) }
LiteralInt32s(list) == [i \in 1..Len(list) |-> Operand("LiteralInt32", list[i])]

\* for (target, member) in targets { push(IdRef(target)); push(LiteralInt32(member)) }
MemberRefs(list) ==
    [i \in 1..(2 * Len(list)) |->
        IF i % 2 = 1 THEN Operand("IdRef", list[(i + 1) \div 2][1])
                     ELSE Operand("LiteralInt32", list[i \div 2][2])]

-----------------------------------------------------------------------------
\* BuildResult<T>, with the abort of an unwrap on None as a third outcome.

Ok(op, id) == [op |-> op, status |-> "Ok", err |-> "", id |-> id]

Err(op, e) == [op |-> op, status |-> "Err", err |-> e, id |-> None]

Panic(op) == [op |-> op, status |-> "Panic", err |-> "", id |-> None]

Errors == {"NestedFunction", "MismatchedFunctionEnd", "DetachedBasicBlock",
           "NestedBasicBlock", "MismatchedTerminator"}

\* The process is still running: no call has aborted.
Running == result.status # "Panic"

-----------------------------------------------------------------------------
\* Builder::new

Init ==
    /\ module = Module_new
    /\ next_id = 1
    /\ function = None
    /\ basic_block = None
    /\ result = Ok("new", None)

\* A variant of Builder::id that increments before reading the counter.
id_returns_incremented == [ret |-> next_id + 1, next_id |-> next_id + 1]

\* Builder::id: the value returned and the counter afterwards.
id == [ret |-> next_id, next_id |-> next_id + 1]

-----------------------------------------------------------------------------
\* The function / basic-block operations.

\* A variant of begin_function without the check for a function in progress.
begin_function_unchecked(return_type, control, function_type) ==
    /\ next_id' = id.next_id
    /\ function' =
           Some([Function_new EXCEPT
                   !.def = Some(Instruction("Function", Some(return_type),
                                    Some(id.ret),
                                    <<Operand("FunctionControl", control),
                                      Operand("IdRef", function_type)>>))])
    /\ result' = Ok("begin_function", Some(id.ret))
    /\ UNCHANGED <<module, basic_block>>

\* A variant of begin_function that passes function_type where return_type
\* belongs, and return_type where function_type belongs.
begin_function_swaps_types(return_type, control, function_type) ==
    IF is_some(function)
    THEN /\ result' = Err("begin_function", "NestedFunction")
         /\ UNCHANGED builder
    ELSE /\ next_id' = id.next_id
         /\ function' =
                Some([Function_new EXCEPT
                        !.def = Some(Instruction("Function", Some(function_type),
                                         Some(id.ret),
                                         <<Operand("FunctionControl", control),
                                           Operand("IdRef", return_type)>>))])
         /\ result' = Ok("begin_function", Some(id.ret))
         /\ UNCHANGED <<module, basic_block>>

begin_function(return_type, control, function_type) ==
    IF is_some(function)
    THEN /\ result' = Err("begin_function", "NestedFunction")
         /\ UNCHANGED builder
    ELSE /\ next_id' = id.next_id
         /\ function' =
                Some([Function_new EXCEPT
                        !.def = Some(Instruction("Function", Some(return_type),
                                         Some(id.ret),
                                         <<Operand("FunctionControl", control),
                                           Operand("IdRef", function_type)>>))])
         /\ result' = Ok("begin_function", Some(id.ret))
         /\ UNCHANGED <<module, basic_block>>

\* A variant of end_function that pushes the function without setting its
\* function-end instruction.
end_function_without_end ==
    IF is_none(function)
    THEN /\ result' = Err("end_function", "MismatchedFunctionEnd")
         /\ UNCHANGED builder
    ELSE /\ function' = None
         /\ module' = [module EXCEPT !.functions = Append(@, unwrap(function))]
         /\ result' = Ok("end_function", None)
         /\ UNCHANGED <<next_id, basic_block>>

end_function ==
    IF is_none(function)
    THEN /\ result' = Err("end_function", "MismatchedFunctionEnd")
         /\ UNCHANGED builder
    ELSE /\ function' = None
         /\ module' =
                [module EXCEPT !.functions =
                    Append(@, [unwrap(function) EXCEPT
                                 !.end = Some(Instruction("FunctionEnd", None,
                                                          None, << >>))])]
         /\ result' = Ok("end_function", None)
         /\ UNCHANGED <<next_id, basic_block>>

\* A variant of begin_basic_block that allocates the identifier before it
\* checks the state.
begin_basic_block_allocates_first ==
    IF is_none(function)
    THEN /\ result' = Err("begin_basic_block", "DetachedBasicBlock")
         /\ next_id' = id.next_id
         /\ UNCHANGED <<module, function, basic_block>>
    ELSE IF is_some(basic_block)
    THEN /\ result' = Err("begin_basic_block", "NestedBasicBlock")
         /\ next_id' = id.next_id
         /\ UNCHANGED <<module, function, basic_block>>
    ELSE /\ next_id' = id.next_id
         /\ basic_block' =
                Some([BasicBlock_new EXCEPT
                        !.label = Some(Instruction("Label", None, None, << >>))])
         /\ result' = Ok("begin_basic_block", Some(id.ret))
         /\ UNCHANGED <<module, function>>

\* A variant of begin_basic_block without the check for a block in progress.
begin_basic_block_unchecked_nesting ==
    IF is_none(function)
    THEN /\ result' = Err("begin_basic_block", "DetachedBasicBlock")
         /\ UNCHANGED builder
    ELSE /\ next_id' = id.next_id
         /\ basic_block' =
                Some([BasicBlock_new EXCEPT
                        !.label = Some(Instruction("Label", None, None, << >>))])
         /\ result' = Ok("begin_basic_block", Some(id.ret))
         /\ UNCHANGED <<module, function>>

begin_basic_block ==
    IF is_none(function)
    THEN /\ result' = Err("begin_basic_block", "DetachedBasicBlock")
         /\ UNCHANGED builder
    ELSE IF is_some(basic_block)
    THEN /\ result' = Err("begin_basic_block", "NestedBasicBlock")
         /\ UNCHANGED builder
    ELSE /\ next_id' = id.next_id
         /\ basic_block' =
                Some([BasicBlock_new EXCEPT
                        !.label = Some(Instruction("Label", None, None, << >>))])
         /\ result' = Ok("begin_basic_block", Some(id.ret))
         /\ UNCHANGED <<module, function>>

\* A variant of end_basic_block whose first check looks at the function slot
\* instead of the block slot, so that the unwrap of the block slot aborts.
end_basic_block_checks_function(inst) ==
    IF is_none(function)
    THEN /\ result' = Err("end_basic_block", "MismatchedTerminator")
         /\ UNCHANGED builder
    ELSE IF is_none(basic_block)
    THEN /\ result' = Panic("end_basic_block")
         /\ UNCHANGED builder
    ELSE /\ function' =
                Some([unwrap(function) EXCEPT
                        !.basic_blocks =
                            Append(@, [unwrap(basic_block) EXCEPT
                                         !.instructions = Append(@, inst)])])
         /\ basic_block' = None
         /\ result' = Ok("end_basic_block", None)
         /\ UNCHANGED <<module, next_id>>

\* A variant of end_basic_block that moves the block into the function
\* without pushing the terminator onto it.
end_basic_block_drops_terminator(inst) ==
    IF is_none(basic_block)
    THEN /\ result' = Err("end_basic_block", "MismatchedTerminator")
         /\ UNCHANGED builder
    ELSE IF is_none(function)
    THEN /\ result' = Panic("end_basic_block")
         /\ UNCHANGED builder
    ELSE /\ function' =
                Some([unwrap(function) EXCEPT
                        !.basic_blocks = Append(@, unwrap(basic_block))])
         /\ basic_block' = None
         /\ result' = Ok("end_basic_block", None)
         /\ UNCHANGED <<module, next_id>>

\* Line 116 pushes inst onto the open block; line 117 then unwraps the
\* in-progress function, which aborts when there is none.
end_basic_block(inst) ==
    IF is_none(basic_block)
    THEN /\ result' = Err("end_basic_block", "MismatchedTerminator")
         /\ UNCHANGED builder
    ELSE LET bb == [unwrap(basic_block) EXCEPT !.instructions = Append(@, inst)]
         IN  IF is_none(function)
             THEN /\ basic_block' = Some(bb)
                  /\ result' = Panic("end_basic_block")
                  /\ UNCHANGED <<module, next_id, function>>
             ELSE /\ function' =
                        Some([unwrap(function) EXCEPT
                                !.basic_blocks = Append(@, bb)])
                  /\ basic_block' = None
                  /\ result' = Ok("end_basic_block", None)
                  /\ UNCHANGED <<module, next_id>>

\* A terminator emitter: builds the terminator, which has no result
\* identifier, and delegates to end_basic_block.
terminator(op) == end_basic_block(Instruction(op, None, None, << >>))

-----------------------------------------------------------------------------
\* The module-level emitters that allocate no identifier.

capability(cap) ==
    /\ module' = [module EXCEPT !.capabilities =
                    Append(@, Instruction("Capability", None, None,
                                          <<Operand("Capability", cap)>>))]
    /\ result' = Ok("capability", None)
    /\ UNCHANGED <<next_id, function, basic_block>>

\* A variant of extension that pushes onto the capabilities section.
extension_pushes_capabilities(ext) ==
    /\ module' = [module EXCEPT !.capabilities =
                    Append(@, Instruction("Extension", None, None,
                                          <<Operand("LiteralString", ext)>>))]
    /\ result' = Ok("extension", None)
    /\ UNCHANGED <<next_id, function, basic_block>>

extension(ext) ==
    /\ module' = [module EXCEPT !.extensions =
                    Append(@, Instruction("Extension", None, None,
                                          <<Operand("LiteralString", ext)>>))]
    /\ result' = Ok("extension", None)
    /\ UNCHANGED <<next_id, function, basic_block>>

\* A variant of memory_model that keeps the instruction of an earlier call.
memory_model_keeps_first(addressing_model, mem_model) ==
    /\ module' =
          IF is_some(module.memory_model)
          THEN module
          ELSE [module EXCEPT !.memory_model =
                  Some(Instruction("MemoryModel", None, None,
                                   <<Operand("AddressingModel", addressing_model),
                                     Operand("MemoryModel", mem_model)>>))]
    /\ result' = Ok("memory_model", None)
    /\ UNCHANGED <<next_id, function, basic_block>>

memory_model(addressing_model, mem_model) ==
    /\ module' = [module EXCEPT !.memory_model =
                    Some(Instruction("MemoryModel", None, None,
                                     <<Operand("AddressingModel", addressing_model),
                                       Operand("MemoryModel", mem_model)>>))]
    /\ result' = Ok("memory_model", None)
    /\ UNCHANGED <<next_id, function, basic_block>>

entry_point(execution_model, entry, name, interface) ==
    /\ module' = [module EXCEPT !.entry_points =
                    Append(@, Instruction("EntryPoint", None, None,
                                  <<Operand("ExecutionModel", execution_model),
                                    Operand("IdRef", entry),
                                    Operand("LiteralString", name)>>
                                  \o IdRefs(interface)))]
    /\ result' = Ok("entry_point", None)
    /\ UNCHANGED <<next_id, function, basic_block>>

execution_mode(entry, mode, params) ==
    /\ module' = [module EXCEPT !.execution_modes =
                    Append(@, Instruction("ExecutionMode", None, None,
                                  <<Operand("IdRef", entry),
                                    Operand("ExecutionMode", mode)>>
                                  \o LiteralInt32s(params)))]
    /\ result' = Ok("execution_mode", None)
    /\ UNCHANGED <<next_id, function, basic_block>>

-----------------------------------------------------------------------------
\* The module-level emitters that allocate a result identifier.

ext_inst_import(extended_inst_set) ==
    /\ next_id' = id.next_id
    /\ module' = [module EXCEPT !.ext_inst_imports =
                    Append(@, Instruction("ExtInstImport", None, Some(id.ret),
                                  <<Operand("LiteralString", extended_inst_set)>>))]
    /\ result' = Ok("ext_inst_import", Some(id.ret))
    /\ UNCHANGED <<function, basic_block>>

decorate(target, decoration, params) ==
    /\ next_id' = id.next_id
    /\ module' = [module EXCEPT !.annotations =
                    Append(@, Instruction("Decorate", None, Some(id.ret),
                                  <<Operand("IdRef", target),
                                    Operand("Decoration", decoration)>>
                                  \o params))]
    /\ result' = Ok("decorate", Some(id.ret))
    /\ UNCHANGED <<function, basic_block>>

member_decorate(structure, member, decoration, params) ==
    /\ next_id' = id.next_id
    /\ module' = [module EXCEPT !.annotations =
                    Append(@, Instruction("MemberDecorate", None, Some(id.ret),
                                  <<Operand("IdRef", structure),
                                    Operand("IdRef", member),
                                    Operand("Decoration", decoration)>>
                                  \o params))]
    /\ result' = Ok("member_decorate", Some(id.ret))
    /\ UNCHANGED <<function, basic_block>>

decoration_group ==
    /\ next_id' = id.next_id
    /\ module' = [module EXCEPT !.annotations =
                    Append(@, Instruction("DecorationGroup", None, Some(id.ret),
                                          << >>))]
    /\ result' = Ok("decoration_group", Some(id.ret))
    /\ UNCHANGED <<function, basic_block>>

\* A variant of group_decorate that builds the instruction without a result
\* identifier.
group_decorate_without_result_id(group, targets) ==
    /\ next_id' = id.next_id
    /\ module' = [module EXCEPT !.annotations =
                    Append(@, Instruction("GroupDecorate", None, None,
                                  <<Operand("IdRef", group)>> \o IdRefs(targets)))]
    /\ result' = Ok("group_decorate", Some(id.ret))
    /\ UNCHANGED <<function, basic_block>>

group_decorate(group, targets) ==
    /\ next_id' = id.next_id
    /\ module' = [module EXCEPT !.annotations =
                    Append(@, Instruction("GroupDecorate", None, Some(id.ret),
                                  <<Operand("IdRef", group)>> \o IdRefs(targets)))]
    /\ result' = Ok("group_decorate", Some(id.ret))
    /\ UNCHANGED <<function, basic_block>>

group_member_decorate(group, targets) ==
    /\ next_id' = id.next_id
    /\ module' = [module EXCEPT !.annotations =
                    Append(@, Instruction("GroupMemberDecorate", None, Some(id.ret),
                                  <<Operand("IdRef", group)>> \o MemberRefs(targets)))]
    /\ result' = Ok("group_member_decorate", Some(id.ret))
    /\ UNCHANGED <<function, basic_block>>

-----------------------------------------------------------------------------
\* The calls a single caller may issue, one at a time, while the process runs.

\* The instructions created so far by the calls that open or append.
Created ==
    (next_id - 1) + Len(module.capabilities) + Len(module.extensions)
    + Len(module.entry_points) + Len(module.execution_modes)

\* The process runs and the caller may still have an instruction created.
CanCreate == Running /\ Created < MaxInsts

Next ==
    \/ \E rt \in ReturnTypes, c \in FunctionControls, ft \in FunctionTypes :
          CanCreate /\ begin_function(rt, c, ft)
    \/ Running /\ end_function
    \/ CanCreate /\ begin_basic_block
    \/ \E op \in TerminatorOps : Running /\ terminator(op)
    \/ \E cap \in Capabilities : CanCreate /\ capability(cap)
    \/ \E ext \in Extensions : CanCreate /\ extension(ext)
    \/ \E am \in AddressingModels, mm \in MemoryModels :
          Running /\ memory_model(am, mm)
    \/ \E em \in ExecutionModels, e \in Words, n \in Names, i \in IdLists :
          CanCreate /\ entry_point(em, e, n, i)
    \/ \E e \in Words, m \in ExecutionModes, p \in ParamLists :
          CanCreate /\ execution_mode(e, m, p)
    \/ \E s \in ExtInstSets : CanCreate /\ ext_inst_import(s)
    \/ \E t \in Words, d \in Decorations, p \in OperandLists :
          CanCreate /\ decorate(t, d, p)
    \/ \E s \in Words, m \in Words, d \in Decorations, p \in OperandLists :
          CanCreate /\ member_decorate(s, m, d, p)
    \/ CanCreate /\ decoration_group
    \/ \E g \in Words, t \in IdLists : CanCreate /\ group_decorate(g, t)
    \/ \E g \in Words, t \in MemberLists :
          CanCreate /\ group_member_decorate(g, t)

\* The type/constant interning of section 4.3: the declarations of the
\* types/constants section whose description is structurally equal to desc.
Declarations(desc) ==
    {i \in 1..Len(module.types_global_values) :
        /\ module.types_global_values[i].op = desc.op
        /\ module.types_global_values[i].operands = desc.operands}

\* A variant of intern that never looks up and declares on every request.
intern_without_lookup(desc) ==
    /\ next_id' = id.next_id
    /\ module' = [module EXCEPT !.types_global_values =
                    Append(@, Instruction(desc.op, None, Some(id.ret),
                                          desc.operands))]
    /\ result' = Ok("intern", Some(id.ret))
    /\ UNCHANGED <<function, basic_block>>

\* intern(description): returns the identifier of the declaration found by
\* structural equality; if there is none, allocates an identifier, appends
\* the declaration to the types/constants section and returns the identifier.
intern(desc) ==
    IF Declarations(desc) # {}
    THEN LET i == CHOOSE k \in Declarations(desc) :
                    \A j \in Declarations(desc) : k <= j
         IN  /\ result' = Ok("intern", module.types_global_values[i].result_id)
             /\ UNCHANGED builder
    ELSE /\ next_id' = id.next_id
         /\ module' = [module EXCEPT !.types_global_values =
                         Append(@, Instruction(desc.op, None, Some(id.ret),
                                               desc.operands))]
         /\ result' = Ok("intern", Some(id.ret))
         /\ UNCHANGED <<function, basic_block>>

Spec == Init /\ [][Next]_vars

\* The interning requests, interleaved with the other calls that allocate
\* identifiers or move the nesting state: the function / basic-block
\* operations and the module-level emitters that allocate.  A request that finds its
\* declaration creates nothing and is always allowed.
NextIntern ==
    \/ \E d \in TypeDescs :
          /\ IF Declarations(d) # {} THEN Running ELSE CanCreate
          /\ intern(d)
    \/ \E rt \in ReturnTypes, c \in FunctionControls, ft \in FunctionTypes :
          CanCreate /\ begin_function(rt, c, ft)
    \/ Running /\ end_function
    \/ CanCreate /\ begin_basic_block
    \/ \E op \in TerminatorOps : Running /\ terminator(op)
    \/ \E s \in ExtInstSets : CanCreate /\ ext_inst_import(s)
    \/ \E t \in Words, d \in Decorations, p \in OperandLists :
          CanCreate /\ decorate(t, d, p)
    \/ \E s \in Words, m \in Words, d \in Decorations, p \in OperandLists :
          CanCreate /\ member_decorate(s, m, d, p)
    \/ CanCreate /\ decoration_group
    \/ \E g \in Words, t \in IdLists : CanCreate /\ group_decorate(g, t)
    \/ \E g \in Words, t \in MemberLists :
          CanCreate /\ group_member_decorate(g, t)

SpecIntern == Init /\ [][NextIntern]_vars

-----------------------------------------------------------------------------
\* Vocabulary of the properties.

\* The three states of the nesting state machine.
Idle == is_none(function) /\ is_none(basic_block)

InFunction == is_some(function) /\ is_none(basic_block)

InFunctionAndBlock == is_some(function) /\ is_some(basic_block)

\* The last call was op and it returned Ok.
Succeeded(op) == result.op = op /\ result.status = "Ok"

\* The last call was op and it returned the error e.
Failed(op, e) == result = Err(op, e)

\* The operations that return a freshly allocated identifier.
IdAllocatingOps ==
    {"begin_function", "begin_basic_block", "ext_inst_import", "decorate",
     "member_decorate", "decoration_group", "group_decorate",
     "group_member_decorate"}

\* The last call returned an identifier it allocated.
Allocated == result.op \in IdAllocatingOps /\ result.status = "Ok"

\* The terminator kinds: branch, conditional branch, switch, return,
\* return-value, kill, unreachable.
AllTerminatorOps ==
    {"Branch", "BranchConditional", "Switch", "Return", "ReturnValue", "Kill",
     "Unreachable"}

IsTerminator(inst) == inst.op \in AllTerminatorOps

\* Every function that holds a block list: the finished ones and the one in
\* progress.
AllFunctions ==
    {module.functions[i] : i \in 1..Len(module.functions)}
    \cup {function[i] : i \in 1..Len(function)}

\* Every basic block found in some function's block list.
StoredBlocks ==
    UNION {{f.basic_blocks[i] : i \in 1..Len(f.basic_blocks)} : f \in AllFunctions}

-----------------------------------------------------------------------------
\* C1: a basic block is in progress only while a function is in progress.
C1_BlockOnlyInsideFunction == is_some(basic_block) => is_some(function)

\* C2: end_function called while a basic block is open fails with
\* MismatchedFunctionEnd and appends nothing to the module's function list.
C2_EndFunctionWithOpenBlockFails ==
    [][(result'.op = "end_function" /\ is_some(basic_block))
         => /\ result' = Err("end_function", "MismatchedFunctionEnd")
            /\ module'.functions = module.functions]_vars

\* C3: every call returns Ok or one of the five usage errors; no call aborts.
C3_NoCallAborts ==
    \/ result.status = "Ok"
    \/ result.status = "Err" /\ result.err \in Errors

\* C4: a call that returns an error leaves the module, the next identifier,
\* the in-progress function and the in-progress block as they were.
C4_FailedCallHasNoEffect ==
    [][result'.status = "Err" => UNCHANGED builder]_vars

\* A failed call seen after the builder has allocated and finished a function.
C4_Witness ==
    /\ result.status = "Err"
    /\ next_id > 1
    /\ Len(module.functions) > 0

\* C5: the counter starts at 1, every successful identifier-allocating call
\* returns the counter's value and advances it by exactly one, and no other
\* step moves the counter: the identifiers returned are 1, 2, 3, ... in call
\* order.
C5_IdsCountUpFromOne ==
    /\ next_id = 1
    /\ [][IF Allocated'
          THEN result'.id = Some(next_id) /\ next_id' = next_id + 1
          ELSE next_id' = next_id]_vars

\* The third allocation returned 3, after allocations by a function, a block
\* and a module-level emitter.
C5_Witness ==
    /\ result = Ok("group_member_decorate", Some(3))
    /\ next_id = 4
    /\ is_some(function)

\* C6: the label of the block that begin_basic_block opened carries the
\* identifier that the call returned.
C6_LabelCarriesReturnedId ==
    Succeeded("begin_basic_block")
        => unwrap(unwrap(basic_block).label).result_id = result.id

\* C7: begin_function called while a function is in progress fails with
\* NestedFunction and leaves the module's function list unchanged.
C7_NestedFunctionRejected ==
    [][(result'.op = "begin_function" /\ is_some(function))
         => /\ result' = Err("begin_function", "NestedFunction")
            /\ module'.functions = module.functions]_vars

\* begin_function was rejected with a block open and a function already
\* finished.
C7_Witness ==
    /\ Failed("begin_function", "NestedFunction")
    /\ is_some(basic_block)
    /\ Len(module.functions) = 1

\* C8: begin_basic_block fails with DetachedBasicBlock when no function is
\* open, with NestedBasicBlock when a function and a block are open, and
\* succeeds exactly when a function is open and no block is.
C8_BeginBasicBlockOutcomes ==
    [][result'.op = "begin_basic_block"
         => /\ is_none(function)
                => result' = Err("begin_basic_block", "DetachedBasicBlock")
            /\ (is_some(function) /\ is_some(basic_block))
                => result' = Err("begin_basic_block", "NestedBasicBlock")
            /\ (result'.status = "Ok")
                <=> (is_some(function) /\ is_none(basic_block))]_vars

\* begin_basic_block was rejected as nested, inside the second block of a
\* function.
C8_Witness ==
    /\ Failed("begin_basic_block", "NestedBasicBlock")
    /\ InFunctionAndBlock
    /\ Len(unwrap(function).basic_blocks) = 1

\* C9: a terminator emitted with no basic block open fails with
\* MismatchedTerminator; end_function with no function open fails with
\* MismatchedFunctionEnd.
C9_MismatchedCloseRejected ==
    [][/\ (result'.op = "end_basic_block" /\ is_none(basic_block))
            => result' = Err("end_basic_block", "MismatchedTerminator")
       /\ (result'.op = "end_function" /\ is_none(function))
            => result' = Err("end_function", "MismatchedFunctionEnd")]_vars

\* A terminator was rejected inside a function, between two blocks.
C9_Witness ==
    /\ Failed("end_basic_block", "MismatchedTerminator")
    /\ InFunction
    /\ Len(unwrap(function).basic_blocks) = 1

\* C10: every basic block in a function's block list, of the in-progress
\* function or of a function of the module, has exactly one terminator, and
\* it is the block's last instruction.
C10_StoredBlocksEndWithTerminator ==
    \A bb \in StoredBlocks :
        /\ Len(bb.instructions) >= 1
        /\ \A i \in 1..Len(bb.instructions) :
              IsTerminator(bb.instructions[i]) <=> i = Len(bb.instructions)

\* A finished function of the module holds a block, and the function in
\* progress holds another.
C10_Witness ==
    /\ Len(module.functions) = 1
    /\ Len(module.functions[1].basic_blocks) = 1
    /\ is_some(function)
    /\ Len(unwrap(function).basic_blocks) = 1

\* C11: a successful end_function leaves the builder in Idle: neither a
\* function nor a basic block is in progress afterwards.
C11_EndFunctionLeavesIdle == Succeeded("end_function") => Idle

\* s is an initial segment of t.
IsPrefix(s, t) == Len(s) <= Len(t) /\ SubSeq(t, 1, Len(s)) = s

\* C12: interning is idempotent.  The types/constants section never holds
\* two declarations of one description and its declarations are never
\* changed or removed; a request returns the identifier of the single
\* declaration of its description; a request whose description is declared
\* allocates nothing and declares nothing, and only a request whose
\* description is not yet declared allocates an identifier.
C12_InterningIsIdempotent ==
    /\ [](\A d \in TypeDescs : Cardinality(Declarations(d)) <= 1)
    /\ [][IsPrefix(module.types_global_values, module'.types_global_values)]_vars
    /\ [][\A d \in TypeDescs :
            intern(d)
              => /\ result'.status = "Ok"
                 /\ Cardinality(Declarations(d)') = 1
                 /\ \A i \in Declarations(d)' :
                       result'.id = module'.types_global_values[i].result_id
                 /\ Declarations(d) # {}
                       => /\ next_id' = next_id
                          /\ module'.types_global_values
                                = module.types_global_values
                 /\ Declarations(d) = {}
                       => /\ result'.id = Some(next_id)
                          /\ next_id' = next_id + 1]_vars

\* A repeated request returned the identifier 1 of the first declaration
\* after a second description had been declared with identifier 2.
C12_Witness ==
    /\ result = Ok("intern", Some(1))
    /\ next_id = 3
    /\ Len(module.types_global_values) = 2

\* The module-level emitters and the module section each of them fills.
SectionOf ==
    [capability |-> "capabilities", extension |-> "extensions",
     ext_inst_import |-> "ext_inst_imports", memory_model |-> "memory_model",
     entry_point |-> "entry_points", execution_mode |-> "execution_modes",
     decorate |-> "annotations", member_decorate |-> "annotations",
     decoration_group |-> "annotations", group_decorate |-> "annotations",
     group_member_decorate |-> "annotations"]

ModuleEmitters == DOMAIN SectionOf

\* C13: a module-level emitter succeeds in whatever state it is called,
\* leaves the in-progress function, the in-progress block and the module's
\* function list unchanged, and changes no module section but its own.
C13_ModuleEmittersOnlyTouchTheirSection ==
    [][result'.op \in ModuleEmitters
         => /\ result'.status = "Ok"
            /\ function' = function
            /\ basic_block' = basic_block
            /\ \A s \in DOMAIN module \ {SectionOf[result'.op]} :
                  module'[s] = module[s]
            /\ module'.functions = module.functions]_vars

\* An emitter succeeded while a function and a block were in progress and
\* the module already held a finished function.
C13_Witness ==
    /\ Succeeded("extension")
    /\ InFunctionAndBlock
    /\ Len(module.functions) = 1

\* The annotation emitters and the operation kind each of them emits.
AnnotationOps ==
    [decorate |-> "Decorate", member_decorate |-> "MemberDecorate",
     decoration_group |-> "DecorationGroup", group_decorate |-> "GroupDecorate",
     group_member_decorate |-> "GroupMemberDecorate"]

\* C14: each call of an annotation emitter appends exactly one instruction,
\* of the emitter's kind, at the end of the annotations section and leaves
\* the earlier ones in place; the instruction's result identifier is the
\* value the call returns, which is the counter's value before the call and
\* the result identifier of no earlier annotation.
C14_AnnotationsAppendInCallOrder ==
    [][result'.op \in DOMAIN AnnotationOps
         => LET before == module.annotations
                after == module'.annotations
            IN  /\ Len(after) = Len(before) + 1
                /\ SubSeq(after, 1, Len(before)) = before
                /\ after[Len(after)].op = AnnotationOps[result'.op]
                /\ after[Len(after)].result_id = result'.id
                /\ result'.id = Some(next_id)
                /\ \A i \in 1..Len(before) :
                      before[i].result_id # result'.id]_vars

\* decorate followed by group_decorate: two annotations in call order with
\* the identifiers 1 and 2.
C14_Witness ==
    /\ result = Ok("group_decorate", Some(2))
    /\ Len(module.annotations) = 2
    /\ module.annotations[1].op = "Decorate"
    /\ module.annotations[1].result_id = Some(1)
    /\ module.annotations[2].op = "GroupDecorate"
    /\ module.annotations[2].result_id = Some(2)

\* C15: a terminator emitted while a block is open succeeds, appends the
\* terminator to that block, appends the block at the end of the enclosing
\* function's block list and closes the block, leaving the builder in
\* InFunction; a successful end_function appends the function, with its
\* blocks in the order they were closed, at the end of the module's list.
C15_TerminatorClosesBlockIntoFunction ==
    /\ [][(result'.op = "end_basic_block" /\ is_some(basic_block))
            => /\ result'.status = "Ok"
               /\ is_some(function)
               /\ InFunction'
               /\ LET bb == unwrap(basic_block)
                      before == unwrap(function).basic_blocks
                      after == unwrap(function').basic_blocks
                      last == after[Len(after)]
                  IN  /\ Len(after) = Len(before) + 1
                      /\ SubSeq(after, 1, Len(before)) = before
                      /\ last.label = bb.label
                      /\ Len(last.instructions) = Len(bb.instructions) + 1
                      /\ SubSeq(last.instructions, 1, Len(bb.instructions))
                            = bb.instructions
                      /\ IsTerminator(last.instructions[Len(last.instructions)])]_vars
    /\ [][(Succeeded("end_function")' /\ is_some(function))
            => LET before == module.functions
                   after == module'.functions
               IN  /\ Len(after) = Len(before) + 1
                   /\ SubSeq(after, 1, Len(before)) = before
                   /\ after[Len(after)].basic_blocks
                         = unwrap(function).basic_blocks]_vars

\* C16: begin_function called in Idle succeeds, allocates exactly one
\* identifier and returns it, stores a function-begin instruction whose
\* result identifier is the returned one and whose result type is the given
\* return type, and leaves the builder in InFunction with an empty block
\* list and the module unchanged.
C16_BeginFunctionInIdle ==
    [][\A rt \in ReturnTypes, c \in FunctionControls, ft \in FunctionTypes :
          (Idle /\ begin_function(rt, c, ft))
            => /\ result' = Ok("begin_function", Some(next_id))
               /\ next_id' = next_id + 1
               /\ InFunction'
               /\ module' = module
               /\ LET f == unwrap(function')
                  IN  /\ is_some(f.def)
                      /\ unwrap(f.def).op = "Function"
                      /\ unwrap(f.def).result_id = result'.id
                      /\ unwrap(f.def).result_type = Some(rt)
                      /\ is_none(f.end)
                      /\ f.basic_blocks = << >>]_vars

\* The second function was begun in Idle and received the identifier 3.
C16_Witness ==
    /\ result = Ok("begin_function", Some(3))
    /\ InFunction
    /\ unwrap(function).basic_blocks = << >>
    /\ Len(module.functions) = 1

\* The number of calls that still separate the nesting state from Idle:
\* end_function from InFunction, a terminator before it from
\* InFunctionAndBlock, and a begin_function before those when a block is open
\* without a function.
Rank ==
    IF Idle THEN 0
    ELSE IF InFunction THEN 1
    ELSE IF InFunctionAndBlock THEN 2
    ELSE 3

\* C17: the caller can always recover.  Every reachable state is Idle or has
\* a call that does not abort and brings the builder one call closer to
\* Idle, so that at most three such calls reach Idle.  (Nothing is said of
\* a running state in which the caller has used up MaxInsts.)
C17_CallerCanAlwaysRecover ==
    \/ Idle
    \/ Running /\ Created >= MaxInsts
    \/ ENABLED (Next /\ Running' /\ Rank' < Rank)

\* C18: every basic block stored in a function was opened while that same
\* function was in progress.  A block is opened only inside the function in
\* progress, and from then until the block is stored the function in
\* progress stays that function: while a block is open, the only change to
\* the function slot is that the function receives this block.
C18_BlockStaysWithItsFunction ==
    /\ [][(is_none(basic_block) /\ is_some(basic_block'))
            => (is_some(function) /\ function' = function)]_vars
    /\ [][is_some(basic_block)
            => \/ function' = function
               \/ /\ is_some(function)
                  /\ is_some(function')
                  /\ is_none(basic_block')
                  /\ LET f == unwrap(function)
                         g == unwrap(function')
                     IN  /\ g.def = f.def
                         /\ g.end = f.end
                         /\ Len(g.basic_blocks) = Len(f.basic_blocks) + 1
                         /\ SubSeq(g.basic_blocks, 1, Len(f.basic_blocks))
                               = f.basic_blocks
                         /\ g.basic_blocks[Len(g.basic_blocks)].label
                               = unwrap(basic_block).label]_vars

\* C19: the module's function list is append-only and holds only finished
\* functions.  Every element has a function-begin and a function-end
\* instruction; the function in progress has no function-end instruction and
\* is no element of the list; a successful end_function appends exactly the
\* function in progress, finished, and leaves the earlier elements in place;
\* no other step changes the list.
C19_FunctionListAppendOnly ==
    /\ [](\A i \in 1..Len(module.functions) :
            /\ is_some(module.functions[i].def)
            /\ unwrap(module.functions[i].def).op = "Function"
            /\ is_some(module.functions[i].end)
            /\ unwrap(module.functions[i].end).op = "FunctionEnd")
    /\ [](is_some(function)
            => /\ is_none(unwrap(function).end)
               /\ \A i \in 1..Len(module.functions) :
                     module.functions[i] # unwrap(function))
    /\ [][IF Succeeded("end_function")'
          THEN /\ is_some(function)
               /\ module'.functions
                     = Append(module.functions,
                              [unwrap(function) EXCEPT
                                 !.end = Some(Instruction("FunctionEnd", None,
                                                          None, << >>))])
          ELSE module'.functions = module.functions]_vars

\* Two finished functions are in the list, the first with a block, and a
\* third function is in progress.
C19_Witness ==
    /\ Len(module.functions) = 2
    /\ Len(module.functions[1].basic_blocks) = 1
    /\ is_some(function)

\* The emitters that append to a list-valued section without allocating, and
\* the operation kind each of them emits.
AppendOps ==
    [capability |-> "Capability", extension |-> "Extension",
     entry_point |-> "EntryPoint", execution_mode |-> "ExecutionMode"]

\* C20: the module holds at most one memory-model instruction.  It holds
\* none at first; a memory_model call makes it the instruction built from
\* that call's arguments, whatever was there before; no other step changes
\* it, so it is always the one of the most recent call.  capability,
\* extension, entry_point and execution_mode each append one instruction of
\* their kind at the end of their section and leave the earlier ones.
C20_MemoryModelIsTheLatest ==
    /\ module.memory_model = None
    /\ [][\A am \in AddressingModels, mm \in MemoryModels :
            memory_model(am, mm)
              => module'.memory_model
                    = Some(Instruction("MemoryModel", None, None,
                                       <<Operand("AddressingModel", am),
                                         Operand("MemoryModel", mm)>>))]_vars
    /\ [][result'.op # "memory_model"
            => module'.memory_model = module.memory_model]_vars
    /\ [][result'.op \in DOMAIN AppendOps
            => LET before == module[SectionOf[result'.op]]
                   after == module'[SectionOf[result'.op]]
               IN  /\ Len(after) = Len(before) + 1
                   /\ SubSeq(after, 1, Len(before)) = before
                   /\ after[Len(after)].op = AppendOps[result'.op]]_vars

\* A memory_model call left the GLSL450 instruction in a module that holds
\* two instructions in list-valued sections.
C20_Witness ==
    /\ Succeeded("memory_model")
    /\ unwrap(module.memory_model).operands[2].val = "GLSL450"
    /\ Len(module.capabilities) = 1
    /\ Len(module.entry_points) = 1

====
